---- MODULE Spec2Model ----
(***************************************************************************)
(* Bulk submission queue of the image generator: the BulkProcessingModal   *)
(* component (item list, processBulkItems, processItem), the               *)
(* useBulkProcessing hook (one independent state per component that calls  *)
(* it, all sharing one localStorage key), the BulkProcessingStatus widget  *)
(* and the credit ledger reached through useAuth.deductCredits.            *)
(*                                                                         *)
(* JavaScript runs one synchronous block at a time: every action below is  *)
(* the code between two awaits (or one UI event handler, or one timer      *)
(* callback), including the state updaters and effects it triggers.        *)
(***************************************************************************)
EXTENDS Integers, Sequences, FiniteSets, TLC

(* ------------------------------ bounds --------------------------------- *)
MaxItems == 2
MaxIds == 2
MaxInvocations == 2
MaxTime == 4
MaxLen == 3
MaxSubmits == 1
MaxNotes == 3

(* --------------------------- program constants -------------------------- *)
BLOG_COST == 5
INFOGRAPHIC_COST == 10
DEFAULT_CREDITS == 50
STALE_MS == 7200000
HOUR_MS == 3600000

ImageTypes == {"blog", "infographic"}
InitialBalances == {0, 5, 12}
Outcomes == {"image", "http_error", "no_image", "network_error"}
Instances == {"app", "status", "modal"}
Procs == 1..MaxInvocations

CREDIT_COSTS(t) == IF t = "blog" THEN BLOG_COST ELSE INFOGRAPHIC_COST

VARIABLES
  credits,        \* profiles.credits of the signed-in account (backend)
  user,           \* authState.user of the modal's useAuth instance
  storage,        \* localStorage['seo_engine_bulk_processing']
  itemStorage,    \* localStorage['bulk_items_<imageType>']
  bp,             \* useBulkProcessing state of each component instance
  items,          \* BulkProcessingModal's items state
  isOpen,         \* App.showBulkModal
  imageType,      \* BulkProcessingModal's imageType prop
  nextId,         \* source of fresh item ids
  now,            \* wall clock, in hours
  timers,         \* pending 10 s cleanup timers of completeBulkProcessing
  notifications,  \* notifications emitted through addNotification
  pc,             \* position of each processBulkItems invocation
  loc,            \* locals of each processBulkItems invocation
  cancelled,      \* history: invocations whose run the user cancelled
  call,           \* a call of sanitizeText: its argument and what it returned
  app,            \* App: its useAuth user and its handleFormSubmit in progress
  log             \* state of one useNotifications instance, and its storage key

vars == <<credits, user, storage, itemStorage, bp, items, isOpen, imageType,
          nextId, now, timers, notifications, pc, loc, cancelled, call, app,
          log>>

(* --------------------------- text sanitizer ----------------------------- *)
\* A text is a sequence of characters.
DQ == "\""     \* double quote
SQ == "'"      \* single quote
BS == "\\"     \* backslash
NL == "\n"
CR == "\r"
TAB == "\t"
FF == "\f"
SP == " "

\* the characters the regular expression \s and String.trim() take for
\* whitespace, among those of the model
IsWhitespace(c) == c \in {SP, NL, CR, TAB, FF}

\* text.replace(/from/g, to) for a one-character pattern
replace(text, from, to) ==
  [i \in 1..Len(text) |-> IF text[i] = from THEN to ELSE text[i]]

\* text.replace(/from/g, '')
remove(text, from) == SelectSeq(text, LAMBDA c : c # from)

RECURSIVE trimStart(_)
trimStart(text) ==
  IF text # <<>> /\ IsWhitespace(Head(text)) THEN trimStart(Tail(text))
  ELSE text

RECURSIVE trimEnd(_)
trimEnd(text) ==
  IF text # <<>> /\ IsWhitespace(text[Len(text)])
  THEN trimEnd(SubSeq(text, 1, Len(text) - 1))
  ELSE text

trim(text) == trimEnd(trimStart(text))

\* text.replace(/\s+/g, ' '): every maximal run of whitespace becomes one
\* space
RECURSIVE collapseWhitespace(_)
collapseWhitespace(text) ==
  IF text = <<>> THEN <<>>
  ELSE IF IsWhitespace(Head(text))
       THEN <<SP>> \o collapseWhitespace(trimStart(Tail(text)))
       ELSE <<Head(text)>> \o collapseWhitespace(Tail(text))

\* mutant: backslashes are kept
sanitizeText_KeepBackslash(text) ==
  IF text = <<>> THEN <<>>
  ELSE trim(collapseWhitespace(
         replace(replace(replace(replace(text, DQ, SQ),
                                 NL, SP), CR, SP), TAB, SP)))

sanitizeText(text) ==
  IF text = <<>> THEN <<>>
  ELSE trim(collapseWhitespace(
         replace(replace(replace(remove(replace(text, DQ, SQ), BS),
                                 NL, SP), CR, SP), TAB, SP)))

sanitizeFormData(data) == [f \in DOMAIN data |-> sanitizeText(data[f])]

(* ------------------------------ items ----------------------------------- *)
EmptyData == [title |-> <<>>, intro |-> <<>>, content |-> <<>>]

\* what the user may have typed into an item's form: all of it, only a
\* part of it, or blanks
FormData(t) ==
  IF t = "blog"
  THEN {[title |-> <<"a">>, intro |-> <<"a">>, content |-> <<>>],
        [title |-> <<"a">>, intro |-> <<SP>>, content |-> <<>>]}
  ELSE {[title |-> <<>>, intro |-> <<>>, content |-> <<"a">>],
        [title |-> <<>>, intro |-> <<>>, content |-> <<SP>>]}

AllFormData == FormData("blog") \cup FormData("infographic")

NewItem(id, t) ==
  [id |-> id, type |-> t, data |-> EmptyData, status |-> "pending",
   result |-> "", error |-> ""]

\* mutant: a blog item counts as valid once it has a title
IsValidItem_TitleOnly(item) ==
  IF item.type = "blog"
  THEN trim(item.data.title) # <<>>
  ELSE trim(item.data.content) # <<>>

\* the filter of processBulkItems, the skip tests of its loop and
\* validItemsCount of the render all apply this test
IsValidItem(item) ==
  IF item.type = "blog"
  THEN trim(item.data.title) # <<>> /\ trim(item.data.intro) # <<>>
  ELSE trim(item.data.content) # <<>>

ValidItems(its) == SelectSeq(its, IsValidItem)

\* JSON.stringify(items): the items are plain data (numbers, strings, nested
\* objects of strings), which JSON.parse gives back as they were
stringifyItems(its) == [ok |-> TRUE, value |-> its]

\* a text under the key 'bulk_items_<imageType>' that JSON.parse rejects
CorruptItemsText == [ok |-> FALSE, value |-> <<>>]

NoItems == [present |-> FALSE, text |-> stringifyItems(<<>>)]

\* effect of lines 108-112: runs after every change of items
SaveItemsEffect(its, old) ==
  IF Len(its) > 0 THEN [present |-> TRUE, text |-> stringifyItems(its)]
  ELSE old

\* effect of lines 93-105: runs when the modal opens; a text that does not
\* parse is logged to the console and left where it is
LoadItemsEffect(sto, its) ==
  IF sto.present /\ sto.text.ok THEN sto.text.value ELSE its

(* ------------------------ useBulkProcessing ----------------------------- *)
getInitialState ==
  [isProcessing |-> FALSE, currentProcessing |-> 0, processedCount |-> 0,
   totalCount |-> 0, startTime |-> 0, bulkProcessingId |-> 0,
   imageType |-> "none"]

\* JSON text of a Date (Date.prototype.toJSON: its ISO string) and of null
toISOString(time) == [isNull |-> FALSE, iso |-> time]

JsonNull == [isNull |-> TRUE, iso |-> 0]

\* new Date(<ISO string>)
newDate(json) == json.iso

\* mutant: the start time is lost when the state is written
stringify_NoDate(st) ==
  [ok |-> TRUE, value |-> [st EXCEPT !.startTime = JsonNull]]

\* JSON.stringify of a run state: startTime becomes its ISO string, null
\* stays null; ok: the text parses
stringify(st) ==
  [ok |-> TRUE,
   value |-> [st EXCEPT !.startTime = IF @ = 0 THEN JsonNull ELSE toISOString(@)]]

\* a text that JSON.parse rejects
CorruptText == [ok |-> FALSE, value |-> stringify(getInitialState).value]

\* the storage key is absent
NoSnapshot == [present |-> FALSE, text |-> stringify(getInitialState)]

\* mutant: the threshold is a day, not two hours
IsStale_Day(st, t) == st.startTime # 0 /\ (t - st.startTime) * HOUR_MS > 12 * STALE_MS

IsStale(st, t) == st.startTime # 0 /\ (t - st.startTime) * HOUR_MS > STALE_MS

\* saveState: returns the new content of the storage key
saveState(newState) ==
  IF newState.processedCount >= newState.totalCount /\ newState.totalCount > 0
     /\ ~newState.isProcessing
  THEN NoSnapshot
  ELSE [present |-> TRUE, text |-> stringify(newState)]

\* useState initializer: a pair (state, storage)
RestoreState(sto, t) ==
  IF sto.present
  THEN IF ~sto.text.ok
       THEN [st |-> getInitialState, sto |-> NoSnapshot]       \* catch
       ELSE LET parsed == sto.text.value
                startTime == IF parsed.startTime.isNull THEN 0
                             ELSE newDate(parsed.startTime)
                isStale == startTime # 0 /\ (t - startTime) * HOUR_MS > STALE_MS
                isCompleted == parsed.processedCount >= parsed.totalCount
                               /\ parsed.totalCount > 0
            IN IF isStale \/ isCompleted
               THEN [st |-> getInitialState, sto |-> NoSnapshot]
               ELSE [st |-> [parsed EXCEPT !.startTime = startTime], sto |-> sto]
  ELSE [st |-> getInitialState, sto |-> sto]

\* startTime of the stored snapshot, 0 if there is none
SnapshotStart(sto) ==
  IF sto.present /\ sto.text.ok /\ ~sto.text.value.startTime.isNull
  THEN newDate(sto.text.value.startTime)
  ELSE 0

startBulkProcessing(totalCount, t, id, time) ==
  LET newState == [isProcessing |-> TRUE, currentProcessing |-> 0,
                   processedCount |-> 0, totalCount |-> totalCount,
                   startTime |-> time, bulkProcessingId |-> id,
                   imageType |-> t]
  IN [st |-> newState, sto |-> saveState(newState)]

updateProgress(prev, processedCount, currentProcessing) ==
  LET done == processedCount >= prev.totalCount /\ prev.totalCount > 0
      newState == [prev EXCEPT
                     !.processedCount = processedCount,
                     !.currentProcessing = IF done THEN 0 ELSE currentProcessing,
                     !.isProcessing = IF done THEN FALSE ELSE prev.isProcessing]
  IN [st |-> newState, sto |-> saveState(newState)]

completeBulkProcessing(prev) ==
  [prev EXCEPT !.isProcessing = FALSE, !.currentProcessing = 0,
               !.processedCount = prev.totalCount]

forceStopProcessing(prev) ==
  LET newState == [prev EXCEPT !.isProcessing = FALSE, !.currentProcessing = 0]
  IN [st |-> newState, sto |-> saveState(newState)]

(* ------------------------------ useAuth --------------------------------- *)
NoUser == [present |-> FALSE, credits |-> 0]

\* loadUserProfile: credits: profile.credits || 50
ProfileCredits(c) == IF c = 0 THEN DEFAULT_CREDITS ELSE c

LoadedUser(c) == [present |-> TRUE, credits |-> ProfileCredits(c)]

(* --------------------------- notifications ------------------------------ *)
Note(type, title, imageCount, bulkId) ==
  [type |-> type, title |-> title, imageCount |-> imageCount, bulkId |-> bulkId]

(* ------------------------ invocation locals ----------------------------- *)
NoLocals ==
  [updatedItems |-> <<>>, i |-> 0, processedCount |-> 0, validCount |-> 0,
   totalCreditsNeeded |-> 0, fetched |-> 0,
   succeeded |-> 0,     \* history: items of this run that completed
   todo |-> {},         \* history: the items valid and pending at the start
   rivals |-> {}]       \* history: invocations still awaiting deductCredits
                        \* when this one was made

Running(p) == pc[p] \in {"wait", "call"}

\* App before sign-in, with no handleFormSubmit in progress
NoApp ==
  [user |-> NoUser, step |-> "idle", creditCost |-> 0, fetched |-> 0,
   submits |-> 0]

\* a notification log that is empty, with nothing stored
NoLog ==
  [notifications |-> <<>>, unreadCount |-> 0,
   stored |-> [present |-> FALSE, notifications |-> <<>>]]

\* no call of sanitizeText in progress
NoCall == [text |-> <<>>, result |-> <<>>, returned |-> FALSE]

\* the program after construction
InitProgram ==
  /\ credits \in InitialBalances
  /\ user = NoUser
  /\ storage = NoSnapshot
  /\ itemStorage = NoItems
  /\ bp = [inst \in Instances |-> getInitialState]
  /\ items = <<>>
  /\ isOpen = FALSE
  /\ imageType \in ImageTypes
  /\ nextId = 1
  /\ now = 1
  /\ timers = 0
  /\ notifications = <<>>
  /\ pc = [p \in Procs |-> "new"]
  /\ loc = [p \in Procs |-> NoLocals]
  /\ cancelled = {}
  /\ app = NoApp
  /\ log = NoLog

Init == InitProgram /\ call = NoCall

(* ------------------------------ useAuth --------------------------------- *)
\* initializeAuth / onAuthStateChange of the modal's useAuth instance
LoadUserProfile ==
  /\ user' = LoadedUser(credits)
  /\ UNCHANGED <<log, app, call, credits, storage, itemStorage, bp, items, isOpen, imageType,
                 nextId, now, timers, notifications, pc, loc, cancelled>>

(* ------------------------- modal: item list ----------------------------- *)
OpenModal ==
  /\ ~isOpen
  /\ isOpen' = TRUE
  /\ items' = LoadItemsEffect(itemStorage, items)
  /\ UNCHANGED <<log, app, call, credits, user, storage, itemStorage, bp, imageType, nextId,
                 now, timers, notifications, pc, loc, cancelled>>

addNewItem ==
  /\ isOpen
  /\ ~bp["modal"].isProcessing \/ Len(items) = 0
  /\ Len(items) < MaxItems
  /\ nextId <= MaxIds
  /\ items' = Append(items, NewItem(nextId, imageType))
  /\ nextId' = nextId + 1
  /\ itemStorage' = SaveItemsEffect(items', itemStorage)
  /\ UNCHANGED <<log, app, call, credits, user, storage, bp, isOpen, imageType, now, timers,
                 notifications, pc, loc, cancelled>>

removeItem(id) ==
  /\ isOpen
  /\ ~bp["modal"].isProcessing
  /\ \E k \in 1..Len(items) : items[k].id = id
  /\ items' = SelectSeq(items, LAMBDA item : item.id # id)
  /\ itemStorage' = SaveItemsEffect(items', itemStorage)
  /\ UNCHANGED <<log, app, call, credits, user, storage, bp, isOpen, imageType, nextId, now,
                 timers, notifications, pc, loc, cancelled>>

\* onChange of an input of an item's form: updateItemData(id, data), with
\* data the form's values after the change
updateItemData(id, data) ==
  /\ isOpen
  /\ ~bp["modal"].isProcessing
  /\ \E k \in 1..Len(items) : items[k].id = id /\ data \in FormData(items[k].type)
  /\ items' = [k \in 1..Len(items) |->
                 IF items[k].id = id
                 THEN [items[k] EXCEPT !.data = sanitizeFormData(data),
                                       !.status = "pending"]
                 ELSE items[k]]
  /\ itemStorage' = SaveItemsEffect(items', itemStorage)
  /\ UNCHANGED <<log, app, call, credits, user, storage, bp, isOpen, imageType, nextId, now,
                 timers, notifications, pc, loc, cancelled>>

ClearAll ==
  /\ isOpen
  /\ Len(items) > 0
  /\ ~bp["modal"].isProcessing
  /\ items' = <<>>
  /\ itemStorage' = NoItems
  /\ UNCHANGED <<log, app, call, credits, user, storage, bp, isOpen, imageType, nextId, now,
                 timers, notifications, pc, loc, cancelled>>

(* ------------------------- processBulkItems ----------------------------- *)
\* disabled attribute of the 'Process All Items' button (rendered only when
\* the modal is open and items.length > 0)
ProcessButtonEnabled ==
  /\ isOpen
  /\ Len(items) > 0
  /\ ~bp["modal"].isProcessing
  /\ Len(ValidItems(items)) # 0
  /\ ~(user.present
       /\ user.credits < Len(ValidItems(items)) * CREDIT_COSTS(imageType))

\* invocation slots are taken in order
FreeSlot(p) == pc[p] = "new" /\ \A q \in Procs : q < p => pc[q] # "new"

Return(p) ==
  /\ pc' = [pc EXCEPT ![p] = "done"]
  /\ loc' = [loc EXCEPT ![p] = [NoLocals EXCEPT !.rivals = loc[p].rivals]]

\* lines 267-299 and deductCredits up to its first await
processBulkItems(p) ==
  /\ FreeSlot(p)
  /\ LET validItems == ValidItems(items)
         creditCost == CREDIT_COSTS(imageType)
         totalCreditsNeeded == Len(validItems) * creditCost
     IN IF Len(validItems) = 0
        THEN /\ notifications' =
                  Append(notifications, Note("warning", "No Valid Items", 0, 0))
             /\ Return(p)
        ELSE IF ~user.present \/ user.credits < totalCreditsNeeded
        THEN /\ notifications' =
                  Append(notifications, Note("error", "Insufficient Credits", 0, 0))
             /\ Return(p)
        ELSE /\ pc' = [pc EXCEPT ![p] = "fetch"]
             /\ loc' = [loc EXCEPT ![p] =
                          [NoLocals EXCEPT
                             !.updatedItems = items,
                             !.rivals = {q \in Procs :
                                           pc[q] \in {"fetch", "update", "reload"}},
                             !.todo = {k \in 1..Len(items) :
                                         /\ IsValidItem(items[k])
                                         /\ items[k].status = "pending"},
                             !.validCount = Len(validItems),
                             !.totalCreditsNeeded = totalCreditsNeeded]]
             /\ UNCHANGED notifications
  /\ UNCHANGED <<log, app, call, credits, user, storage, itemStorage, bp, items, isOpen,
                 imageType, nextId, now, timers, cancelled>>

\* onClick of the 'Process All Items' button
ClickProcessAll(p) ==
  /\ ProcessButtonEnabled
  /\ processBulkItems(p)

\* mutant: the failed debit is not reported
CreditDeductionFailed_Silent(p) ==
  /\ Return(p)
  /\ UNCHANGED <<log, app, call, credits, user, storage, itemStorage, bp, items, isOpen,
                 imageType, nextId, now, timers, notifications, cancelled>>

\* lines 300-307: deductCredits returned false
CreditDeductionFailed(p) ==
  /\ notifications' =
       Append(notifications, Note("error", "Credit Deduction Failed", 0, 0))
  /\ Return(p)
  /\ UNCHANGED <<log, app, call, credits, user, storage, itemStorage, bp, items, isOpen,
                 imageType, nextId, now, timers, cancelled>>

\* deductCredits: the select of profiles.credits resolves
DeductFetch(p) ==
  /\ pc[p] = "fetch"
  /\ \/ CreditDeductionFailed(p)                       \* fetchError
     \/ IF credits < loc[p].totalCreditsNeeded
        THEN CreditDeductionFailed(p)                  \* 'Insufficient credits'
        ELSE /\ pc' = [pc EXCEPT ![p] = "update"]
             /\ loc' = [loc EXCEPT ![p].fetched = credits]
             /\ UNCHANGED <<log, app, call, credits, user, storage, itemStorage, bp, items,
                            isOpen, imageType, nextId, now, timers,
                            notifications, cancelled>>

\* mutant: the update lowers the stored balance by the amount, whatever the
\* balance is by then
DeductUpdate_Relative(p) ==
  /\ pc[p] = "update"
  /\ \/ CreditDeductionFailed(p)
     \/ /\ credits' = credits - loc[p].totalCreditsNeeded
        /\ pc' = [pc EXCEPT ![p] = "reload"]
        /\ UNCHANGED <<log, app, call, user, storage, itemStorage, bp, items, isOpen,
                       imageType, nextId, now, timers, notifications, loc,
                       cancelled>>

\* deductCredits: the update of profiles.credits resolves; the table refuses
\* a row with credits < 0 (CHECK (credits >= 0))
DeductUpdate(p) ==
  /\ pc[p] = "update"
  /\ \/ CreditDeductionFailed(p)                       \* updateError
     \/ /\ loc[p].fetched - loc[p].totalCreditsNeeded >= 0
        /\ credits' = loc[p].fetched - loc[p].totalCreditsNeeded
        /\ pc' = [pc EXCEPT ![p] = "reload"]
        /\ UNCHANGED <<log, app, call, user, storage, itemStorage, bp, items, isOpen,
                       imageType, nextId, now, timers, notifications, loc,
                       cancelled>>

\* mutant: the loop takes the last eligible item first
NextIndex_LastFirst(s, i0) ==
  LET C == {j \in i0..Len(s) : IsValidItem(s[j]) /\ s[j].status = "pending"}
  IN IF C = {} THEN 0 ELSE CHOOSE j \in C : \A k \in C : j >= k

\* index of the next item the loop does not skip (lines 325-335), 0 if none
NextIndex(s, i0) ==
  LET C == {j \in i0..Len(s) : IsValidItem(s[j]) /\ s[j].status = "pending"}
  IN IF C = {} THEN 0 ELSE CHOOSE j \in C : \A k \in C : j <= k

\* what the completion notification reports (line 364)
CompletionImageCount(s, processedCount) == processedCount

\* The loop of processBulkItems from index i0 on, up to its next await or to
\* the end of the function (lines 324-369).  s: updatedItems, c: processedCount,
\* n: how many items of the run completed (history), m, sto: the modal's hook
\* state and the storage key so far in this block, notes: the notifications
\* so far, changed: whether setItems was already called in this block.
LoopFrom(p, s, i0, c, n, m, sto, notes, changed) ==
  LET j == NextIndex(s, i0)
  IN IF j # 0
     THEN LET s2 == [s EXCEPT ![j].status = "processing"]
              up == updateProgress(m, c, s[j].id)
          IN /\ items' = s2
             /\ itemStorage' = SaveItemsEffect(s2, itemStorage)
             /\ bp' = [bp EXCEPT !["modal"] = up.st]
             /\ storage' = up.sto
             /\ notifications' = notes
             /\ timers' = timers
             /\ loc' = [loc EXCEPT ![p].updatedItems = s2, ![p].i = j,
                                   ![p].processedCount = c,
                                   ![p].succeeded = n]
             /\ pc' = [pc EXCEPT ![p] = "wait"]
     ELSE /\ items' = IF changed THEN s ELSE items
          \* removeItem of line 369 against the save effect of this block's
          \* setItems: either may come last
          /\ itemStorage' \in
               {NoItems} \cup
               (IF changed THEN {SaveItemsEffect(s, NoItems)} ELSE {})
          /\ bp' = [bp EXCEPT !["modal"] = completeBulkProcessing(m)]
          /\ storage' = sto
          /\ timers' = timers + 1
          /\ notifications' =
               Append(notes, Note("success", "Bulk Processing Complete!",
                                  CompletionImageCount(s, c), p))
          /\ Return(p)

\* deductCredits: loadUserProfile resolves and deductCredits returns true;
\* then lines 309-322 and the loop up to its first await
StartRun(p) ==
  /\ pc[p] = "reload"
  /\ user' = LoadedUser(credits)
  /\ LET started == startBulkProcessing(loc[p].validCount, imageType, p, now)
         note == Note("info", "Bulk Processing Started", loc[p].validCount, p)
     IN LoopFrom(p, loc[p].updatedItems, 1, 0, 0, started.st, started.sto,
                 Append(notifications, note), FALSE)
  /\ UNCHANGED <<log, app, call, credits, isOpen, imageType, nextId, now, cancelled>>

\* the waits before the call are over (the 2000 ms delay of line 343 when
\* i > 0, then the timed steps of processItem) and the fetch is issued
IssueCall(p) ==
  /\ pc[p] = "wait"
  /\ pc' = [pc EXCEPT ![p] = "call"]
  /\ UNCHANGED <<log, app, call, credits, user, storage, itemStorage, bp, items, isOpen,
                 imageType, nextId, now, timers, notifications, loc, cancelled>>

\* processItem from the response on (lines 241-264)
\* mutant: a failed call leaves its item in-progress
processItem_FailureUnmarked(item, outcome) ==
  IF outcome = "image"
  THEN [item EXCEPT !.status = "completed", !.result = "img"]
  ELSE item

processItem(item, outcome) ==
  IF outcome = "image"
  THEN [item EXCEPT !.status = "completed", !.result = "img"]
  ELSE [item EXCEPT !.status = "error",
                    !.error = CASE outcome = "http_error" -> "HTTP error! status: 500"
                                [] outcome = "no_image" -> "No image data received from the server"
                                [] OTHER -> "Failed to fetch"]

\* mutant: a failed call ends the loop
Resolve_AbortOnError(p, outcome) ==
  /\ pc[p] = "call"
  /\ LET j == loc[p].i
         s == [loc[p].updatedItems EXCEPT ![j] = processItem(@, outcome)]
         c == loc[p].processedCount + 1
         n == loc[p].succeeded + (IF s[j].status = "completed" THEN 1 ELSE 0)
         up == updateProgress(bp["modal"], c, 0)
     IN LoopFrom(p, s, IF outcome = "image" THEN j + 1 ELSE Len(s) + 1,
                 c, n, up.st, up.sto, notifications, TRUE)
  /\ UNCHANGED <<log, app, call, credits, user, isOpen, imageType, nextId, now, cancelled>>

\* the external call resolves: lines 346-351, then the loop goes on
Resolve(p, outcome) ==
  /\ pc[p] = "call"
  /\ LET j == loc[p].i
         s == [loc[p].updatedItems EXCEPT ![j] = processItem(@, outcome)]
         c == loc[p].processedCount + 1
         n == loc[p].succeeded + (IF s[j].status = "completed" THEN 1 ELSE 0)
         up == updateProgress(bp["modal"], c, 0)
     IN LoopFrom(p, s, j + 1, c, n, up.st, up.sto, notifications, TRUE)
  /\ UNCHANGED <<log, app, call, credits, user, isOpen, imageType, nextId, now, cancelled>>

(* ------------------- timers, status widget, page ------------------------ *)
\* mutant: the callback removes the stored snapshot only
CleanupTimer_StorageOnly ==
  /\ timers > 0
  /\ timers' = timers - 1
  /\ storage' = NoSnapshot
  /\ UNCHANGED <<log, app, call, credits, user, itemStorage, bp, items, isOpen, imageType,
                 nextId, now, notifications, pc, loc, cancelled>>

\* the setTimeout callback of completeBulkProcessing (lines 148-151)
CleanupTimer ==
  /\ timers > 0
  /\ timers' = timers - 1
  /\ storage' = NoSnapshot
  /\ bp' = [bp EXCEPT !["modal"] = getInitialState]
  /\ UNCHANGED <<log, app, call, credits, user, itemStorage, items, isOpen, imageType, nextId,
                 now, notifications, pc, loc, cancelled>>

\* resetBulkProcessing of one hook instance: a pair (state, storage)
resetBulkProcessing == [st |-> getInitialState, sto |-> NoSnapshot]

\* BulkProcessingStatus renders unless !isProcessing && processedCount === 0;
\* its props are the App instance's state
StatusVisible == bp["app"].isProcessing \/ bp["app"].processedCount # 0

StatusIsComplete ==
  bp["app"].processedCount = bp["app"].totalCount /\ bp["app"].totalCount > 0

\* BulkProcessingStatus.handleClose; confirmed: the answer to confirm()
handleClose(confirmed) ==
  /\ StatusVisible
  /\ IF StatusIsComplete \/ ~bp["app"].isProcessing
     THEN /\ confirmed
          /\ bp' = [bp EXCEPT !["status"] = resetBulkProcessing.st]
          /\ storage' = resetBulkProcessing.sto
          /\ UNCHANGED cancelled
     ELSE IF confirmed
     THEN \* forceStopProcessing(); resetBulkProcessing(): the updater of
          \* forceStopProcessing, which saves, runs either at once or at
          \* the next render, after resetBulkProcessing removed the key
          /\ bp' = [bp EXCEPT !["status"] = resetBulkProcessing.st]
          /\ storage' \in {resetBulkProcessing.sto,
                           forceStopProcessing(bp["status"]).sto}
          /\ cancelled' = cancelled \cup {p \in Procs : Running(p)}
     ELSE UNCHANGED <<log, app, call, bp, storage, cancelled>>
  /\ UNCHANGED <<log, app, call, credits, user, itemStorage, items, isOpen, imageType, nextId,
                 now, timers, notifications, pc, loc>>

\* mutant: App announces completion whenever its run state holds a run
AppCompletionEffect_AnyRun(st, notes) ==
  IF st.totalCount > 0
  THEN Append(notes, Note("success", "Bulk Processing Complete!",
                          st.totalCount, 0))
  ELSE notes

\* App's effect on its own instance of the run state: runs after every
\* render in which that state changed
AppCompletionEffect(st, notes) ==
  IF ~st.isProcessing /\ st.processedCount = st.totalCount /\ st.totalCount > 0
  THEN Append(notes, Note("success", "Bulk Processing Complete!",
                          st.totalCount, 0))
  ELSE notes

\* the once-a-minute interval of one hook instance (lines 188-201)
StaleCheck(inst) ==
  /\ bp[inst].isProcessing
  /\ IsStale(bp[inst], now)
  /\ bp' = [bp EXCEPT ![inst] = resetBulkProcessing.st]
  /\ storage' = resetBulkProcessing.sto
  /\ notifications' = IF inst = "app"
                      THEN AppCompletionEffect(bp'["app"], notifications)
                      ELSE notifications
  /\ UNCHANGED <<log, app, call, credits, user, itemStorage, items, isOpen, imageType,
                 nextId, now, timers, pc, loc, cancelled>>

\* an hour passes; the clock is only read against a run's startTime, to
\* see whether it is stale
Tick ==
  /\ now < MaxTime
  /\ \/ SnapshotStart(storage) # 0
        /\ (now - SnapshotStart(storage)) * HOUR_MS <= STALE_MS
     \/ \E inst \in Instances : bp[inst].startTime # 0 /\ ~IsStale(bp[inst], now)
  /\ now' = now + 1
  /\ UNCHANGED <<log, app, call, credits, user, storage, itemStorage, bp, items, isOpen,
                 imageType, nextId, timers, notifications, pc, loc, cancelled>>

\* the page is reloaded: every pending continuation and timer is gone, every
\* component is constructed again (App first, then its children)
Reload ==
  /\ LET a == RestoreState(storage, now)
         s == RestoreState(a.sto, now)
         m == RestoreState(s.sto, now)
     IN /\ bp' = [inst \in Instances |->
                    CASE inst = "app" -> a.st
                      [] inst = "status" -> s.st
                      [] OTHER -> m.st]
        /\ storage' = m.sto
        /\ notifications' = AppCompletionEffect(a.st, notifications)
  /\ user' = NoUser
  /\ items' = <<>>
  /\ isOpen' = FALSE
  /\ timers' = 0
  /\ pc' = [p \in Procs |-> IF pc[p] = "new" THEN "new" ELSE "done"]
  /\ loc' = [p \in Procs |-> NoLocals]
  /\ app' = [NoApp EXCEPT !.submits = app.submits]
  /\ UNCHANGED <<log, call, credits, itemStorage, imageType, nextId, now, cancelled>>

\* filling the list, and the steps of the runs and their timers
Core ==
  \/ LoadUserProfile
  \/ OpenModal
  \/ addNewItem
  \/ \E id \in 1..MaxIds, data \in AllFormData : updateItemData(id, data)
  \/ \E p \in Procs : DeductFetch(p)
  \/ \E p \in Procs : DeductUpdate(p)
  \/ \E p \in Procs : StartRun(p)
  \/ \E p \in Procs : IssueCall(p)
  \/ \E p \in Procs, outcome \in Outcomes : Resolve(p, outcome)
  \/ CleanupTimer

\* one page session: the modal with all its list operations
Session ==
  \/ Core
  \/ \E id \in 1..MaxIds : removeItem(id)
  \/ ClearAll

\* the program as the user drives it within one page session: runs start
\* from the button
Next ==
  \/ Session
  \/ \E p \in Procs : ClickProcessAll(p)

Spec == Init /\ [][Next]_vars

\* the queue as a component: processBulkItems (startRun) may be called in
\* any state
NextApi ==
  \/ Session
  \/ \E p \in Procs : processBulkItems(p)

SpecApi == Init /\ [][NextApi]_vars

\* the program across page reloads, with the clock and the status widget
NextPage ==
  \/ Core
  \/ \E p \in Procs : ClickProcessAll(p)
  \/ \E confirmed \in BOOLEAN : handleClose(confirmed)
  \/ \E inst \in Instances : StaleCheck(inst)
  \/ Tick
  \/ Reload

SpecPage == Init /\ [][NextPage]_vars

(* ------------- useBulkProcessing as a component of its own -------------- *)
\* what the hook's operations below leave alone
HookFrame ==
  UNCHANGED <<log, app, call, credits, user, itemStorage, items, isOpen, imageType, nextId,
              notifications, pc, loc, cancelled>>

\* startBulkProcessing(totalCount, imageType) called on the modal's instance
CallStartBulkProcessing(totalCount, t, id) ==
  /\ LET started == startBulkProcessing(totalCount, t, id, now)
     IN /\ bp' = [bp EXCEPT !["modal"] = started.st]
        /\ storage' = started.sto
  /\ UNCHANGED <<log, app, call, now, timers>>
  /\ HookFrame

\* updateProgress(processedCount, currentProcessing)
CallUpdateProgress(processedCount, currentProcessing) ==
  /\ LET up == updateProgress(bp["modal"], processedCount, currentProcessing)
     IN /\ bp' = [bp EXCEPT !["modal"] = up.st]
        /\ storage' = up.sto
  /\ UNCHANGED <<log, app, call, now, timers>>
  /\ HookFrame

\* completeBulkProcessing()
CallCompleteBulkProcessing ==
  /\ timers < MaxInvocations
  /\ bp' = [bp EXCEPT !["modal"] = completeBulkProcessing(bp["modal"])]
  /\ timers' = timers + 1
  /\ UNCHANGED <<log, app, call, storage, now>>
  /\ HookFrame

\* something other than saveState wrote the storage key, and the text does
\* not parse
CorruptSnapshot ==
  /\ storage' = [present |-> TRUE, text |-> CorruptText]
  /\ UNCHANGED <<log, app, call, bp, now, timers>>
  /\ HookFrame

\* the hook's operations do not read the account or the modal's prop: one
\* initial state stands for all
InitHook == Init /\ credits = 0 /\ imageType = "blog"

\* the hook with its operations called in any order, across page reloads
NextHook ==
  \/ \E n \in 1..MaxItems : CallStartBulkProcessing(n, imageType, 1)
  \/ \E c \in 0..MaxItems, cur \in 0..1 : CallUpdateProgress(c, cur)
  \/ CallCompleteBulkProcessing
  \/ CleanupTimer
  \/ \E inst \in Instances : StaleCheck(inst)
  \/ Tick
  \/ Reload
  \/ CorruptSnapshot

SpecHook == InitHook /\ [][NextHook]_vars

\* the once-a-minute interval runs as long as the page is open
SpecHookFair ==
  SpecHook /\ \A inst \in Instances : WF_vars(StaleCheck(inst))

(* -------------------- one page session, scheduled ------------------------ *)
\* the timers of the loop elapse, and every generation call returns
SpecFair ==
  /\ Spec
  /\ \A p \in Procs : WF_vars(IssueCall(p))
  /\ \A p \in Procs : WF_vars(\E outcome \in Outcomes : Resolve(p, outcome))

\* one page session in which every pending 10 s timer fires
SpecGrace == Spec /\ WF_vars(CleanupTimer)

(* ------------------- App: single image generation ----------------------- *)
\* what the steps of App's handleFormSubmit leave alone
AppFrame ==
  UNCHANGED <<log, call, user, storage, itemStorage, bp, items, isOpen, imageType,
              nextId, now, timers, pc, loc, cancelled>>

\* initializeAuth / onAuthStateChange of App's useAuth instance
LoadAppUserProfile ==
  /\ app.step = "idle"
  /\ app' = [app EXCEPT !.user = LoadedUser(credits)]
  /\ UNCHANGED <<credits, notifications>>
  /\ AppFrame

\* handleFormSubmit up to the first await of its deductCredits call; the
\* submit button is disabled while isLoading
handleFormSubmit(selectedType) ==
  /\ app.step = "idle"
  /\ app.submits < MaxSubmits
  /\ app.user.present
  /\ LET creditCost == CREDIT_COSTS(selectedType)
         counted == [app EXCEPT !.submits = @ + 1]
     IN IF bp["app"].isProcessing
        THEN /\ notifications' =
                  Append(notifications,
                         Note("warning", "Bulk Processing Active", 0, 0))
             /\ app' = counted
        ELSE IF app.user.credits < creditCost
        THEN /\ notifications' =
                  Append(notifications, Note("error", "Insufficient Credits", 0, 0))
             /\ app' = counted
        ELSE /\ app' = [counted EXCEPT !.step = "fetch",
                                       !.creditCost = creditCost]
             /\ UNCHANGED notifications
  /\ UNCHANGED credits
  /\ AppFrame

\* the catch block of handleFormSubmit
ImageGenerationFailed ==
  /\ notifications' =
       Append(notifications, Note("error", "Image Generation Failed", 0, 0))
  /\ app' = [app EXCEPT !.step = "idle", !.creditCost = 0, !.fetched = 0]

\* deductCredits of App: the select of profiles.credits resolves
SingleDeductFetch ==
  /\ app.step = "fetch"
  /\ \/ ImageGenerationFailed /\ UNCHANGED credits           \* fetchError
     \/ IF credits < app.creditCost
        THEN ImageGenerationFailed /\ UNCHANGED credits
        ELSE /\ app' = [app EXCEPT !.step = "update", !.fetched = credits]
             /\ UNCHANGED <<credits, notifications>>
  /\ AppFrame

\* deductCredits of App: the update of profiles.credits resolves
SingleDeductUpdate ==
  /\ app.step = "update"
  /\ \/ ImageGenerationFailed /\ UNCHANGED credits           \* updateError
     \/ /\ app.fetched - app.creditCost >= 0
        /\ credits' = app.fetched - app.creditCost
        /\ app' = [app EXCEPT !.step = "reload"]
        /\ UNCHANGED notifications
  /\ AppFrame

\* deductCredits of App reloads the profile and returns true; the webhook
\* call is issued
SingleIssueCall ==
  /\ app.step = "reload"
  /\ app' = [app EXCEPT !.step = "call", !.user = LoadedUser(credits)]
  /\ UNCHANGED <<credits, notifications>>
  /\ AppFrame

\* the webhook call of handleFormSubmit resolves
SingleResolve(outcome) ==
  /\ app.step = "call"
  /\ IF outcome = "image"
     THEN /\ notifications' =
               Append(notifications,
                      Note("success", "Image Generated Successfully!", 1, 0))
          /\ app' = [app EXCEPT !.step = "idle", !.creditCost = 0, !.fetched = 0]
     ELSE ImageGenerationFailed
  /\ UNCHANGED credits
  /\ AppFrame

\* the single-image form of App
Single ==
  \/ LoadAppUserProfile
  \/ \E selectedType \in ImageTypes : handleFormSubmit(selectedType)
  \/ SingleDeductFetch
  \/ SingleDeductUpdate
  \/ SingleIssueCall
  \/ \E outcome \in Outcomes : SingleResolve(outcome)

\* one template type, an account that is empty or holds two batches
InitApp == Init /\ credits \in {0, 12} /\ imageType = "blog"

\* one bulk run of the modal and the single-image form side by side, across
\* page reloads
NextApp ==
  \/ LoadUserProfile
  \/ OpenModal
  \/ addNewItem
  \/ \E id \in 1..MaxIds, data \in AllFormData : updateItemData(id, data)
  \/ ClickProcessAll(1)
  \/ DeductFetch(1)
  \/ DeductUpdate(1)
  \/ StartRun(1)
  \/ IssueCall(1)
  \/ \E outcome \in Outcomes : Resolve(1, outcome)
  \/ CleanupTimer
  \/ Single
  \/ Reload

SpecApp == InitApp /\ [][NextApp]_vars

(* ----------------- both stored snapshots, read back ---------------------- *)
\* something other than the save effect wrote the item-list key, and the
\* text does not parse
CorruptItemList ==
  /\ itemStorage' = [present |-> TRUE, text |-> CorruptItemsText]
  /\ UNCHANGED <<log, app, call, credits, user, storage, bp, items, isOpen, imageType, nextId,
                 now, timers, notifications, pc, loc, cancelled>>

\* the hook's operations together with the modal's stored item list
NextStore ==
  \/ NextHook
  \/ OpenModal
  \/ addNewItem
  \/ CorruptItemList

SpecStore == InitHook /\ [][NextStore]_vars

(* ------------------- sanitizeText as a pure function --------------------- *)
\* the characters the sanitizer tells apart, and one it does not
Chars == {"a", DQ, SQ, BS, NL, CR, TAB, FF, SP}

Texts == UNION {[1..n -> Chars] : n \in 0..MaxLen}

\* the title  A "Big" Deal<newline>Today
ExampleTitle ==
  <<"A", SP, DQ, "B", "i", "g", DQ, SP, "D", "e", "a", "l", NL,
    "T", "o", "d", "a", "y">>

InitSanitize ==
  /\ InitProgram /\ credits = 0 /\ imageType = "blog"
  /\ call \in {[text |-> t, result |-> <<>>, returned |-> FALSE] :
                t \in Texts \cup {ExampleTitle}}

\* sanitizeText(call.text) is evaluated and returns
CallSanitizeText ==
  /\ ~call.returned
  /\ call' = [call EXCEPT !.result = sanitizeText(call.text),
                          !.returned = TRUE]
  /\ UNCHANGED <<log, app, credits, user, storage, itemStorage, bp, items, isOpen,
                 imageType, nextId, now, timers, notifications, pc, loc,
                 cancelled>>

NextSanitize == CallSanitizeText

SpecSanitize == InitSanitize /\ [][NextSanitize]_vars

(* ========================== properties ================================== *)
Blank(text) == trim(text) = <<>>

\* the required fields of an item, as the specification states them
RequiredFilled(item) ==
  IF item.type = "blog"
  THEN ~Blank(item.data.title) /\ ~Blank(item.data.intro)
  ELSE ~Blank(item.data.content)

FilledCount(its) == Cardinality({k \in 1..Len(its) : RequiredFilled(its[k])})

BatchCost(its) == FilledCount(its) * CREDIT_COSTS(imageType)

\* this step is a call of processBulkItems by invocation p
Invoked(p) == pc[p] = "new" /\ pc'[p] # "new"

StartNotes(notes) ==
  {k \in 1..Len(notes) : notes[k].title = "Bulk Processing Started"}

HasNote(title) == \E k \in 1..Len(notifications) : notifications[k].title = title

\* C1: processBulkItems invoked when the account balance is below the batch
\* cost returns at once: it does not call deductCredits, starts no run,
\* leaves the balance unchanged and emits no run-start notification.
C1_InsufficientBalanceRefused ==
  [][\A p \in Procs :
       (Invoked(p) /\ FilledCount(items) > 0 /\ credits < BatchCost(items))
       => /\ pc'[p] = "done"
          /\ credits' = credits
          /\ bp' = bp /\ storage' = storage
          /\ StartNotes(notifications') = StartNotes(notifications)]_vars

\* C2: processBulkItems invoked when no item has its required fields filled
\* performs no debit, creates no run and emits no run-start notification;
\* whenever it is invoked the items it counts and charges for are those with
\* their required fields filled, and only such an item is ever in progress.
C2_NoValidItemsNoEffect ==
  [][\A p \in Procs :
       /\ (Invoked(p) /\ FilledCount(items) = 0)
          => /\ pc'[p] = "done"
             /\ credits' = credits
             /\ bp' = bp /\ storage' = storage /\ items' = items
             /\ StartNotes(notifications') = StartNotes(notifications)
       /\ (Invoked(p) /\ pc'[p] = "fetch")
          => /\ loc'[p].validCount = FilledCount(items)
             /\ loc'[p].totalCreditsNeeded = BatchCost(items)
       /\ Running(p)'
          => RequiredFilled(loc'[p].updatedItems[loc'[p].i])]_vars

\* C2 witness: a call with items in the list, none of them valid, has returned
C2_Witness ==
  /\ Len(items) > 0
  /\ FilledCount(items) = 0
  /\ pc[1] = "done"
  /\ HasNote("No Valid Items")

\* C3: a run is paid for by one debit of exactly validItemCount x perItemCost,
\* made before any item is in progress: each debit of deductCredits lowers the
\* stored balance by the batch cost, and a run only starts after it.
C3_DebitIsBatchCost ==
  [][\A p \in Procs :
       /\ (pc[p] = "update" /\ pc'[p] = "reload")
          => /\ loc[p].totalCreditsNeeded
                  = loc[p].validCount * CREDIT_COSTS(imageType)
             /\ credits' = credits - loc[p].totalCreditsNeeded
       /\ (~Running(p) /\ Running(p)') => pc[p] = "reload"]_vars

\* C4: when deductCredits returns false, processBulkItems starts no run, no
\* item leaves pending, no call is issued and an error notification is shown.
C4_DebitFailureStartsNoRun ==
  [][\A p \in Procs :
       (pc[p] \in {"fetch", "update"} /\ pc'[p] = "done")
       => /\ bp' = bp /\ storage' = storage /\ timers' = timers
          /\ items' = items /\ itemStorage' = itemStorage
          /\ \A q \in Procs : Running(q)' => Running(q)
          /\ Len(notifications') = Len(notifications) + 1
          /\ notifications'[Len(notifications')].type = "error"
          /\ notifications'[Len(notifications')].title = "Credit Deduction Failed"]_vars

\* C4 witness: the backend had less than the cost the client check accepted,
\* and the call ended with the failure notification
C4_Witness ==
  /\ pc[1] = "done"
  /\ HasNote("Credit Deduction Failed")
  /\ ~HasNote("Bulk Processing Started")
  /\ user.present /\ user.credits >= BatchCost(items) /\ FilledCount(items) > 0

\* this step ends the run of invocation p: completeBulkProcessing was called
Completes(p) ==
  pc[p] \in {"reload", "call"} /\ pc'[p] = "done" /\ timers' = timers + 1

\* updatedItems of invocation p at the end of a step that ends its run
FinalItems(p) == IF pc[p] = "call" THEN items' ELSE loc[p].updatedItems

TerminalCount(its) ==
  Cardinality({k \in 1..Len(its) :
                 RequiredFilled(its[k]) /\ its[k].status \in {"completed", "error"}})

\* C5: when a run over N valid items finishes without cancellation, the run
\* state has processedCount = totalCount = N and N of those items are
\* completed or failed.
C5_FinishedRunCountsAll ==
  [][\A p \in Procs :
       (Completes(p) /\ p \notin cancelled)
       => /\ bp'["modal"].processedCount = loc[p].validCount
          /\ bp'["modal"].totalCount = loc[p].validCount
          /\ TerminalCount(FinalItems(p)) = loc[p].validCount]_vars

\* invocation p marks an item in-progress in this step
Marks(p) == pc[p] \in {"reload", "call"} /\ pc'[p] = "wait"

\* invocation p starts an external generation call in this step
Calls(p) == pc[p] = "wait" /\ pc'[p] = "call"

\* C6: once the user has cancelled an active run from the status widget, its
\* loop marks no further item in-progress and starts no further external
\* call.
C6_NothingStartsAfterCancel ==
  [][\A p \in cancelled : ~Marks(p) /\ ~Calls(p)]_vars

\* how many items of the run of p completed, at the end of a step that ends it
SucceededAtEnd(p) ==
  loc[p].succeeded
  + (IF pc[p] = "call" /\ items'[loc[p].i].status = "completed" THEN 1 ELSE 0)

\* C7: the completion notification of a run reports as imageCount the number
\* of items that completed in that run; failed items are not counted.
C7_CompletionCountsSuccesses ==
  [][\A p \in Procs :
       Completes(p)
       => notifications'[Len(notifications')].imageCount = SucceededAtEnd(p)]_vars

Terminal(item) == item.status \in {"completed", "error"}

\* C8: within a run items are taken in insertion order: the item a step marks
\* in-progress was pending and lies after the one marked before it, no filled
\* item before it in the list is still pending, and items are only marked at
\* the start of the loop or in the step in which the previous call resolves,
\* leaving its item completed or failed.
C8_InsertionOrder ==
  [][\A p \in Procs :
       (pc'[p] = "wait" /\ pc[p] # "wait")
       => /\ pc[p] \in {"reload", "call"}
          /\ loc'[p].i > loc[p].i
          /\ loc[p].updatedItems[loc'[p].i].status = "pending"
          /\ loc'[p].updatedItems[loc'[p].i].status = "processing"
          /\ \A k \in 1..(loc'[p].i - 1) :
                RequiredFilled(loc'[p].updatedItems[k])
                => loc'[p].updatedItems[k].status # "pending"
          /\ pc[p] = "call" => Terminal(loc'[p].updatedItems[loc[p].i])]_vars

\* C8 witness: the second item is in progress after the first one resolved
C8_Witness ==
  \E p \in Procs :
    /\ Running(p)
    /\ loc[p].i = 2
    /\ RequiredFilled(loc[p].updatedItems[1])
    /\ Terminal(loc[p].updatedItems[1])
    /\ items = loc[p].updatedItems

\* the call of invocation p resolves in this step and its item has failed
Fails(p) ==
  /\ pc[p] = "call"
  /\ Marks(p) \/ Completes(p)
  /\ items'[loc[p].i].status = "error"

\* filled pending items of the run of p after the one in flight
LaterPending(p) ==
  {k \in (loc[p].i + 1)..Len(loc[p].updatedItems) :
     /\ RequiredFilled(loc[p].updatedItems[k])
     /\ loc[p].updatedItems[k].status = "pending"}

\* C9: a failed generation call sets only its own item to failed, with an
\* error message, still counts the item as processed and does not end the
\* run: the next filled pending item, if there is one, is marked in-progress
\* in the same step.
C9_FailureDoesNotAbort ==
  [][\A p \in Procs :
       Fails(p)
       => /\ items'[loc[p].i].error # ""
          /\ items'[loc[p].i].result = loc[p].updatedItems[loc[p].i].result
          /\ \A k \in 1..Len(items') :
                (k # loc[p].i /\ ~(Marks(p) /\ k = loc'[p].i))
                => items'[k] = loc[p].updatedItems[k]
          /\ IF LaterPending(p) # {}
             THEN /\ Marks(p)
                  /\ loc'[p].i \in LaterPending(p)
                  /\ \A k \in LaterPending(p) : loc'[p].i <= k
                  /\ loc'[p].processedCount = loc[p].processedCount + 1
                  /\ bp'["modal"].processedCount = loc[p].processedCount + 1
             ELSE Completes(p)]_vars

\* C9 witness: the first item failed and the second was still submitted
C9_Witness ==
  /\ Len(items) = 2
  /\ items[1].status = "error" /\ items[1].error # ""
  /\ items[2].status = "completed"
  /\ pc[1] = "done" /\ pc[2] = "new"

\* C10: no two processing loops started by processBulkItems run at once.
C10_OneRunAtATime == Cardinality({p \in Procs : Running(p)}) <= 1

\* invocations whose external generation call is in flight
InFlight == {p \in Procs : pc[p] = "call"}

\* C11: the bulk queue never has more than one external generation call in
\* flight.
C11_OneCallInFlight == Cardinality(InFlight) <= 1

\* this step lies within the run of invocation p
WithinRun(p) == Running(p) /\ (Running(p)' \/ Completes(p))

\* C12: within a run the run state's processedCount never decreases, never
\* exceeds totalCount, and changes only by one, in a step in which the call
\* of an item resolves.
C12_ProcessedCountAdvances ==
  [][\A p \in Procs :
       WithinRun(p)
       => /\ bp'["modal"].processedCount >= bp["modal"].processedCount
          /\ bp'["modal"].processedCount <= bp'["modal"].totalCount
          /\ bp'["modal"].processedCount # bp["modal"].processedCount
             => /\ bp'["modal"].processedCount = bp["modal"].processedCount + 1
                /\ \E q \in Procs : pc[q] = "call" /\ pc'[q] # "call"]_vars

\* C13: in every reachable state, whatever the interleaving of deductCredits
\* calls, the stored credit balance is a non-negative integer.
C13_BalanceNonNegative == credits \in Nat

\* C13 witness: two overlapping deductCredits calls have both written the
\* balance, which is now 0
C13_Witness ==
  /\ \A p \in Procs : pc[p] = "reload"
  /\ credits = 0

\* the deductCredits call of invocation p writes the balance in this step
\* (and goes on to return true)
Deducts(p) == pc[p] = "update" /\ pc'[p] = "reload"

\* the deductCredits call of invocation p returns false in this step
Refuses(p) == pc[p] \in {"fetch", "update"} /\ pc'[p] = "done"

\* C14: deductCredits is atomic with respect to the account: a call that
\* returns true finds, at the moment it deducts, a balance of at least its
\* amount and lowers that balance by exactly its amount (so two overlapping
\* successful calls lower it by the sum), and a call that returns false
\* deducts nothing.
C14_DebitIsAtomic ==
  [][\A p \in Procs :
       /\ Deducts(p)
          => /\ credits >= loc[p].totalCreditsNeeded
             /\ credits' = credits - loc[p].totalCreditsNeeded
       /\ Refuses(p) => credits' = credits]_vars

\* the run states a and b agree on every field the widget and the loop read
Equivalent(a, b) ==
  /\ a.isProcessing = b.isProcessing
  /\ a.processedCount = b.processedCount
  /\ a.totalCount = b.totalCount
  /\ a.startTime = b.startTime
  /\ a.bulkProcessingId = b.bulkProcessingId
  /\ a.imageType = b.imageType

\* C15: persistence round trip.  When the storage holds what saveState wrote
\* for a run state that is neither stale nor complete, re-initialising the
\* hook from storage gives every instance an equivalent run state and keeps
\* the snapshot; a stored state with processedCount >= totalCount rehydrates
\* as no active run (and, when it had items, as the initial state, the
\* snapshot being removed).
C15_RoundTrip ==
  [][Reload =>
       /\ (/\ storage = saveState(bp["modal"])
           /\ ~IsStale(bp["modal"], now)
           /\ bp["modal"].processedCount < bp["modal"].totalCount)
          => /\ \A inst \in Instances : Equivalent(bp'[inst], bp["modal"])
             /\ storage' = storage
       /\ (/\ storage.present /\ storage.text.ok
           /\ storage.text.value.processedCount >= storage.text.value.totalCount)
          => /\ \A inst \in Instances : ~bp'[inst].isProcessing
             /\ storage.text.value.totalCount > 0
                => /\ \A inst \in Instances : bp'[inst] = getInitialState
                   /\ ~storage'.present]_vars

\* C15 witness: the page was reloaded during a run and the App's instance,
\* which only ever gets a run state from storage, holds the run that was saved
C15_Witness ==
  /\ bp["app"].isProcessing
  /\ bp["app"].processedCount < bp["app"].totalCount
  /\ bp["app"].startTime # 0
  /\ storage = saveState(bp["app"])

\* a run started at time start is older than two hours at time t
PastThreshold(start, t) == start # 0 /\ (t - start) * HOUR_MS > 2 * 60 * 60 * 1000

\* instance inst holds an active run that is past the threshold
StaleActive(inst) ==
  bp[inst].isProcessing /\ PastThreshold(bp[inst].startTime, now)

\* C16: a run older than two hours does not remain active.  At a page
\* reload a persisted snapshot older than the threshold is discarded: the
\* storage is cleared and every instance starts with no active run; and an
\* instance whose in-memory run is active past the threshold is eventually
\* reset by its periodic check.
C16_StaleRunsAreDropped ==
  /\ [][Reload =>
          (PastThreshold(SnapshotStart(storage), now)
           => /\ \A inst \in Instances : bp'[inst] = getInitialState
              /\ ~storage'.present)]_vars
  /\ \A inst \in Instances : StaleActive(inst) ~> ~StaleActive(inst)

\* C16 witness: the status widget's instance still holds the restored run,
\* past the threshold, while the App's instance, restored with it, has
\* already been reset by its periodic check
C16_Witness ==
  /\ StaleActive("status")
  /\ bp["app"] = getInitialState
  /\ ~storage.present

\* C17: a stored snapshot that fails to parse when it is loaded is treated as
\* no prior run: the component starts from fresh empty state and the corrupt
\* snapshot is removed from storage. The program stores two snapshots: the
\* run state, loaded when the page loads, and the item list, loaded when the
\* modal opens.
C17_CorruptSnapshotDiscarded ==
  [][/\ (Reload /\ storage.present /\ ~storage.text.ok)
          => /\ \A inst \in Instances : bp'[inst] = getInitialState
             /\ ~storage'.present
     /\ (OpenModal /\ itemStorage.present /\ ~itemStorage.text.ok)
          => /\ items' = <<>>
             /\ ~itemStorage'.present]_vars

\* what the claim's example sanitizes to:  A 'Big' Deal Today
ExampleSanitized ==
  <<"A", SP, SQ, "B", "i", "g", SQ, SP, "D", "e", "a", "l", SP,
    "T", "o", "d", "a", "y">>

\* a double quote becomes a single quote
Quoted(c) == IF c = DQ THEN SQ ELSE c

\* index of the first whitespace of text, or one past its end
FirstWhitespace(text) ==
  IF \E i \in 1..Len(text) : IsWhitespace(text[i])
  THEN CHOOSE i \in 1..Len(text) :
         IsWhitespace(text[i]) /\ \A j \in 1..(i - 1) : ~IsWhitespace(text[j])
  ELSE Len(text) + 1

\* the maximal whitespace-free stretches of text, in order
RECURSIVE Words(_)
Words(text) ==
  IF text = <<>> THEN <<>>
  ELSE IF IsWhitespace(Head(text)) THEN Words(Tail(text))
       ELSE LET n == FirstWhitespace(text)
            IN <<SubSeq(text, 1, n - 1)>> \o Words(SubSeq(text, n, Len(text)))

\* words joined by single spaces
RECURSIVE Join(_)
Join(words) ==
  IF words = <<>> THEN <<>>
  ELSE IF Len(words) = 1 THEN words[1]
       ELSE words[1] \o <<SP>> \o Join(Tail(words))

\* C18: for every input string, sanitizeText replaces every double quote
\* with a single quote, removes every backslash, collapses every run of
\* whitespace to a single space and trims both ends, so its output never
\* contains a double quote, backslash or newline; the title
\* A "Big" Deal<newline>Today sanitizes to A 'Big' Deal Today.
C18_SanitizeText ==
  call.returned =>
    LET kept == SelectSeq(call.text, LAMBDA c : c # BS)
        quoted == [i \in 1..Len(kept) |-> Quoted(kept[i])]
    IN /\ call.result = Join(Words(quoted))
       /\ \A i \in 1..Len(call.result) :
            call.result[i] \notin {DQ, BS, NL, CR, TAB}
       /\ call.text = ExampleTitle => call.result = ExampleSanitized

C18_Witness ==
  call.returned /\ call.text = ExampleTitle /\ call.result = ExampleSanitized

\* the completion notifications among notes, and those of run p
CompletionNotes(notes) ==
  {k \in 1..Len(notes) : notes[k].title = "Bulk Processing Complete!"}

CompletionNotesOf(notes, p) ==
  {k \in CompletionNotes(notes) : notes[k].bulkId = p}

C20_RunTerminates ==
  /\ [][\A p \in Procs :
          Completes(p)
          => /\ \A k \in loc[p].todo : Terminal(FinalItems(p)[k])
             /\ ~bp'["modal"].isProcessing]_vars
  /\ \A p \in Procs : Running(p) ~> (pc[p] = "done")

C20_Witness ==
  /\ \A p \in Procs : pc[p] \in {"new", "done"}
  /\ ~bp["modal"].isProcessing
  /\ Len(items) = MaxItems
  /\ \E j, k \in 1..Len(items) :
       items[j].status = "completed" /\ items[k].status = "error"
  /\ Cardinality(CompletionNotes(notifications)) = 1

\* external generation calls issued by the run of p, at a step that ends it
CallsIssued(p) == loc[p].processedCount + (IF pc[p] = "call" THEN 1 ELSE 0)

\* C21: in every run, each item counted in the batch cost is submitted to the
\* external generation call exactly once: the number of external calls issued
\* in the run equals the totalCount that was debited for, also when the list
\* holds items left completed, failed or in-progress by an earlier run.
C21_EveryChargedItemSubmitted ==
  [][\A p \in Procs :
       Completes(p)
       => /\ CallsIssued(p) = loc[p].validCount
          /\ loc[p].totalCreditsNeeded = CallsIssued(p) * CREDIT_COSTS(imageType)
    ]_vars

\* this step is one of the caller's operations on the item list
ListOperation ==
  \/ addNewItem
  \/ \E id \in 1..MaxIds, data \in AllFormData : updateItemData(id, data)
  \/ \E id \in 1..MaxIds : removeItem(id)
  \/ ClearAll

\* what opening the modal would load from sto is the list its
PersistedEquals(sto, its) ==
  IF sto.present THEN sto.text.ok /\ sto.text.value = its ELSE its = <<>>

\* C22: after any sequence of addNewItem, updateItemData, removeItem and Clear
\* All, the item list persisted under bulk_items_<templateType> equals the
\* in-memory item list, so an item removed by the caller (the last remaining
\* one included) does not reappear when the modal is opened again.
C22_PersistedListIsCurrent ==
  [][ListOperation => PersistedEquals(itemStorage', items')]_vars

\* C23: in every reachable state each item carries a result image only if its
\* status is completed and an error message only if its status is failed,
\* also after updateItemData has reset an edited item to pending and after an
\* item that failed in one run has completed in a later run.
C23_ResultAndErrorMatchStatus ==
  \A k \in 1..Len(items) :
    /\ items[k].result # "" => items[k].status = "completed"
    /\ items[k].error # "" => items[k].status = "error"

\* C24: updateItemData invoked while a run is active is a no-op that leaves
\* every item's fields and status unchanged; invoked while no run is active it
\* replaces the item's fields and resets a failed item's status to pending.
C24_NoEditDuringRun ==
  [][\A id \in 1..MaxIds, data \in AllFormData :
       updateItemData(id, data)
       => IF \E p \in Procs : Running(p)
          THEN items' = items
          ELSE \A k \in 1..Len(items) :
                 IF items[k].id = id
                 THEN /\ items'[k].data = sanitizeFormData(data)
                      /\ items[k].status = "error" => items'[k].status = "pending"
                 ELSE items'[k] = items[k]]_vars

\* C25: after a run completes, its persisted run state is eventually removed
\* from storage and the in-memory run state eventually returns to the initial
\* no-run state (the 10-second grace period), without any further caller
\* action: a pending cleanup timer leads to a state with no stored snapshot
\* and the initial run state.
C25_CompletedRunIsCleared ==
  (timers > 0) ~> (~storage.present /\ bp["modal"] = getInitialState)

C25_Witness ==
  /\ timers = 0
  /\ ~storage.present /\ bp["modal"] = getInitialState
  /\ \E p \in Procs : CompletionNotesOf(notifications, p) # {}
  /\ \A p \in Procs : ~Running(p)

\* C26: while a bulk run started by processBulkItems is active (between
\* startBulkProcessing and its completion or cancellation), handleFormSubmit
\* for a single image performs no debit and issues no external generation
\* call; it only emits a 'Bulk Processing Active' warning notification.
C26_NoSingleImageDuringRun ==
  [][\A selectedType \in ImageTypes :
       (handleFormSubmit(selectedType) /\ \E p \in Procs : Running(p))
       => /\ app'.step = "idle"
          /\ Len(notifications') = Len(notifications) + 1
          /\ notifications'[Len(notifications')].title = "Bulk Processing Active"
    ]_vars

\* the account has been debited for the batch of invocation p
Debited(p) ==
  \/ pc[p] = "reload"
  \/ \E k \in StartNotes(notifications) : notifications[k].bulkId = p

\* C27: if processBulkItems is invoked a second time before the first
\* invocation's deductCredits call has resolved, the account is debited for at
\* most one batch and at most one run is started.
C27_SecondClickStartsNothing ==
  \A q \in Procs : \A p \in loc[q].rivals : ~(Debited(p) /\ Debited(q))

\* C28: the delayed cleanup scheduled by completeBulkProcessing for a run only
\* ever clears that run: if a new run is started with startBulkProcessing
\* before the previous run's 10-second timer fires, the new run's in-memory
\* state and persisted snapshot are not reset or removed by the old timer.
\* (A run state with isProcessing set was written by a startBulkProcessing
\* later than every completeBulkProcessing so far.)
C28_TimerClearsOwnRunOnly ==
  [][(CleanupTimer /\ bp["modal"].isProcessing)
       => (bp'["modal"] = bp["modal"] /\ storage' = storage)]_vars

\* C29: after loadUserProfile succeeds, the client-side user.credits equals
\* the credits value stored in the backend profile for every non-negative
\* balance, 0 included (so that the client-side sufficiency checks of
\* processBulkItems and handleFormSubmit accept a request exactly when the
\* backend balance covers its cost).
C29_ClientBalanceIsStoredBalance ==
  [][/\ LoadUserProfile => user'.credits = credits
     /\ LoadAppUserProfile => app'.user.credits = credits
     /\ \A p \in Procs : StartRun(p) => user'.credits = credits
     /\ SingleIssueCall => app'.user.credits = credits]_vars

\* ---------------------------------------------------------------------------
\* The notification log of one useNotifications instance
\* ---------------------------------------------------------------------------

\* ids a notification can get (Date.now() plus a random suffix: any id at all)
NoteIds == 1..MaxNotes

\* updatedNotifications.filter(n => !n.read).length
unreadOf(list) == Cardinality({k \in 1..Len(list) : ~list[k].read})

\* what the log operations leave alone
LogFrame ==
  UNCHANGED <<credits, user, storage, itemStorage, bp, items, isOpen,
              imageType, nextId, now, timers, notifications, pc, loc,
              cancelled, call, app>>

\* saveNotifications: the list goes to the storage key
saveNotifications(list) == [present |-> TRUE, notifications |-> list]

\* addNotification: a new unread notification in front, the count plus one
addNotification(id) ==
  /\ Len(log.notifications) < MaxNotes
  /\ LET updatedNotifications ==
           <<[id |-> id, read |-> FALSE]>> \o log.notifications
     IN  log' = [notifications |-> updatedNotifications,
                 unreadCount   |-> log.unreadCount + 1,
                 stored        |-> saveNotifications(updatedNotifications)]
  /\ LogFrame

\* markAsRead: the notifications of that id become read, the count is recomputed
markAsRead(notificationId) ==
  /\ LET updatedNotifications ==
           [k \in 1..Len(log.notifications) |->
              IF log.notifications[k].id = notificationId
                THEN [log.notifications[k] EXCEPT !.read = TRUE]
                ELSE log.notifications[k]]
     IN  log' = [notifications |-> updatedNotifications,
                 unreadCount   |-> unreadOf(updatedNotifications),
                 stored        |-> saveNotifications(updatedNotifications)]
  /\ LogFrame

\* markAllAsRead: every notification becomes read, the count becomes 0
markAllAsRead ==
  /\ LET updatedNotifications ==
           [k \in 1..Len(log.notifications) |->
              [log.notifications[k] EXCEPT !.read = TRUE]]
     IN  log' = [notifications |-> updatedNotifications,
                 unreadCount   |-> 0,
                 stored        |-> saveNotifications(updatedNotifications)]
  /\ LogFrame

\* clearAllNotifications: empty list, count 0, the storage key removed
clearAllNotifications ==
  /\ log' = [notifications |-> <<>>,
             unreadCount   |-> 0,
             stored        |-> NoLog.stored]
  /\ LogFrame

\* removeNotification that takes one off the count instead of recounting
removeNotification_Decrement(notificationId) ==
  /\ LET updatedNotifications ==
           SelectSeq(log.notifications, LAMBDA n : n.id # notificationId)
     IN  log' = [notifications |-> updatedNotifications,
                 unreadCount   |-> IF log.unreadCount > 0
                                     THEN log.unreadCount - 1 ELSE 0,
                 stored        |-> saveNotifications(updatedNotifications)]
  /\ LogFrame

\* removeNotification: the notifications of that id go, the count is recomputed
removeNotification(notificationId) ==
  /\ LET updatedNotifications ==
           SelectSeq(log.notifications, LAMBDA n : n.id # notificationId)
     IN  log' = [notifications |-> updatedNotifications,
                 unreadCount   |-> unreadOf(updatedNotifications),
                 stored        |-> saveNotifications(updatedNotifications)]
  /\ LogFrame

\* a new mount of the hook: empty state, then the mount effect loads the key
LoadNotificationsEffect ==
  /\ log' = IF log.stored.present
              THEN [log EXCEPT !.notifications = log.stored.notifications,
                               !.unreadCount =
                                  unreadOf(log.stored.notifications)]
              ELSE [log EXCEPT !.notifications = <<>>, !.unreadCount = 0]
  /\ LogFrame

InitLog == Init /\ credits = 0 /\ imageType = "blog"

NextLog ==
  \/ \E id \in NoteIds : addNotification(id)
  \/ \E id \in NoteIds : markAsRead(id)
  \/ markAllAsRead
  \/ clearAllNotifications
  \/ \E id \in NoteIds : removeNotification(id)
  \/ LoadNotificationsEffect

SpecLog == InitLog /\ [][NextLog]_vars

\* C30: after any sequence of addNotification, markAsRead, markAllAsRead,
\* removeNotification and clearAllNotifications, unreadCount is the number of
\* notifications in the list whose read flag is false.
C30_UnreadCountIsUnreadNotes ==
  log.unreadCount = unreadOf(log.notifications)

\* a log holding a read notification in front of an unread one (the newer one
\* was marked read after both were added), saved as it is
C30_Witness ==
  /\ Len(log.notifications) = 2
  /\ log.notifications[1].read
  /\ ~log.notifications[2].read
  /\ log.unreadCount = 1
  /\ log.stored = saveNotifications(log.notifications)

====
